---- MODULE Spec2Model ----
(***************************************************************************)
(* Model of wamr-rust-pthreadcall (src/src/lib.rs): the typed invocation   *)
(* adapter  <Function as PThreadExtension>::call_pthread  and the generic  *)
(* executor  call_pthread(stacksize, f).  Both box a unit of work, hand    *)
(* its raw address to pthread_create, block in pthread_join and rebuild    *)
(* the boxed result from the address the worker returned.                  *)
(*                                                                         *)
(* The caller is one thread that performs calls one after another; each    *)
(* successful pthread_create adds a worker thread that runs the entry      *)
(* point raw_fncaller / raw_closurescaller concurrently with the caller.   *)
(* pthread_create, pthread_join and Function::call are external: their     *)
(* status and result are chosen nondeterministically from small sets.      *)
(***************************************************************************)
EXTENDS Integers, Sequences, FiniteSets, TLC

\* ------------------------------------------------------------------ bounds
\* Number of calls the caller thread performs one after another, with the
\* full input sets (Spec).
MaxCalls == 1

\* Number of calls the caller thread performs one after another, with one
\* input per operation (SpecSeq).
MaxSeqCalls == 2

\* ------------------------------------------------------- machine integers
\* i32::MIN, written so that no literal exceeds the checker's integers.
I32Min == -2147483647 - 1

\* 2^16: a u32 is kept as two 16-bit halves, because u32 values above
\* i32::MAX (such as i32::MIN as u32 = 2^31) do not fit one model integer.
Half == 65536

\* `x as u32` for an i32 x: the two's-complement reinterpretation.
AsU32(x) ==
    IF x >= 0
    THEN [hi |-> x \div Half, lo |-> x % Half]
    ELSE LET y == (x + 2147483647) + 1     \* x + 2^31, in 0 .. 2^31-1
         IN  [hi |-> 32768 + (y \div Half), lo |-> y % Half]

\* i32::abs in a build without overflow checks: i32::MIN wraps to itself.
WrappingAbs(x) == IF x = I32Min THEN I32Min ELSE IF x < 0 THEN -x ELSE x

\* i32::abs overflows exactly at i32::MIN (panic in a build with overflow
\* checks).
AbsOverflows(x) == x = I32Min

\* Bug variant of ExitCode: the status converted without taking abs.
ExitCodeNoAbs(status) == AsU32(status)

\* exit_code: res.abs() as u32
ExitCode(status) == AsU32(WrappingAbs(status))

\* Decimal digits of n >= 0, most significant first.
RECURSIVE Digits(_)
Digits(n) ==
    LET d == <<"0", "1", "2", "3", "4", "5", "6", "7", "8", "9">>[(n % 10) + 1]
    IN  IF n < 10 THEN <<d>> ELSE Digits(n \div 10) \o <<d>>

\* Display for i32, as format!("{}", n) prints it.
Display(n) ==
    IF n >= 0 THEN Digits(n)
    ELSE LET last == (10 - (n % 10)) % 10          \* last digit of |n|
             rest == -((n + last) \div 10)         \* |n| div 10
         IN  <<"-">> \o (IF rest = 0 THEN <<>> ELSE Digits(rest))
                     \o Digits(last)

\* ---------------------------------------------------------------- values
\* A Rust value crossing the thread boundary: its type, the enum variant
\* (for Result), and its contents.
Value(ty, variant, ints, text) ==
    [ty |-> ty, variant |-> variant, ints |-> ints, text |-> text]

NoValue == Value("", "", <<>>, "")

\* wamr_rust_sdk::ExecError { message, exit_code }
ExecError(message, exit_code) == [message |-> message, exit_code |-> exit_code]

NoError == ExecError(<<>>, AsU32(0))

Ok(v) == [tag |-> "Ok", val |-> v, err |-> NoError]

\* Err(RuntimeError::ExecutionError(e))
Err(e) == [tag |-> "Err", val |-> NoValue, err |-> e]

NoResult == [tag |-> "none", val |-> NoValue, err |-> NoError]

CreateMsg == "Failed to create thread: "
JoinMsg == "Failed to join thread: "
MismatchMsg == "Type mismatch in thread result"

\* The error returned when pthread_create returned res /= 0.
CreateError(res) == Err(ExecError(<<CreateMsg>> \o Display(res), ExitCode(res)))

\* Bug variant of JoinError: the creation failure's error is returned.
JoinErrorAsCreate(join_ret) == CreateError(join_ret)

\* The error returned when pthread_join returned join_ret /= 0.
JoinError(join_ret) ==
    Err(ExecError(<<JoinMsg>> \o Display(join_ret), ExitCode(join_ret)))

\* The error built by the map_err closure after a failed downcast.
MismatchError == Err(ExecError(<<MismatchMsg>>, AsU32(1)))

\* ---------------------------------------------------------------- inputs
\* attr.stacksize written by both operations.
DefaultStackSize == 4096

\* Stack sizes a caller of the generic executor may request.
StackSizes == {4096, 8192}

\* Statuses pthread_create may return, the usual ones first: success, EAGAIN,
\* and negative ones down to the least i32.
CreateStatuses == <<0, 11, -11, I32Min>>

\* Statuses pthread_join may return, the usual ones first: success, ESRCH,
\* and negative ones down to the least i32.
JoinStatuses == <<0, 3, -3, I32Min>>

\* A closure handed to the generic executor: its result type T, what it does
\* when invoked (returns v, panics, never returns) and the value v.
Closure(T, out, v) == [T |-> T, out |-> out, v |-> v]

NoClosure == Closure("", "none", NoValue)

Closures ==
    { Closure("i32", "return", Value("i32", "", <<42>>, "")),
      Closure("Result<i32,String>", "return",
              Value("Result<i32,String>", "Err", <<>>, "boom")),
      Closure("i32", "panic", NoValue),
      Closure("i32", "diverge", NoValue) }

\* Exported wasm functions, instances (identified by the value of a global
\* they hold) and argument lists for the adapter.
Functions == {"sum", "trap", "spin"}
Instances == {10, 20}
ParamLists == {<<>>, <<1, 2>>}

RECURSIVE Sum(_)
Sum(s) == IF s = <<>> THEN 0 ELSE Head(s) + Sum(Tail(s))

\* Function::call(instance, params) of wamr_rust_sdk, as the callables used
\* here behave: "sum" returns the instance's global plus the arguments,
\* "trap" fails with the callable's own RuntimeError.
FunctionCall(function, instance, params) ==
    IF function = "sum"
    THEN Ok(Value("Vec<WasmValue>", "", <<instance + Sum(params)>>, ""))
    ELSE Err(ExecError(<<"Exception: unreachable">>, AsU32(1)))

\* The callable returns to its caller ("spin" loops forever).
FunctionReturns(function) == function /= "spin"

\* Bug variant of FunctionCallerCall: the argument list is dropped.
FunctionCallerCallNoParams(fncaller) ==
    FunctionCall(fncaller.function, fncaller.instance, <<>>)

\* FunctionCaller::call: self.function.call(self.instance, self.params)
FunctionCallerCall(fncaller) ==
    FunctionCall(fncaller.function, fncaller.instance, fncaller.params)

\* A unit of work: the FunctionCaller of the adapter or the ClosureWrapper of
\* the executor, in one record shape.
FunctionCaller(function, instance, params) ==
    [op |-> "adapter", function |-> function, instance |-> instance,
     params |-> params, closure |-> NoClosure]

ClosureWrapper(closure) ==
    [op |-> "executor", function |-> "", instance |-> 0, params |-> <<>>,
     closure |-> closure]

NoWork == [op |-> "none", function |-> "", instance |-> 0, params |-> <<>>,
           closure |-> NoClosure]

\* ----------------------------------------------------------------- state
VARIABLES
    overflowChecks, \* the build panics on integer overflow (debug) or wraps
    aborted,        \* the process was aborted by a panic on a worker
    calls,          \* number of calls started by the caller thread
    pc,             \* caller: "idle", "join", "returned", "panicked"
    request,        \* current call: the unit of work, requested stack size, T
    attr,           \* pthread_attr_t of the current call
    thread,         \* thread handle written by pthread_create (0 = unset)
    ptr,            \* raw address of the boxed unit of work
    res,            \* status returned by pthread_create
    join_ret,       \* status returned by pthread_join
    raw_ret,        \* exit value stored by pthread_join (0 = null)
    result,         \* value returned by the current call
    threads,        \* worker threads ever created, indexed by handle
    heap,           \* boxes ever allocated, indexed by address
    createCount,    \* per call: pthread_create requests
    joinCount,      \* per call: pthread_join requests
    runs            \* per call: times the operation was invoked

vars == <<overflowChecks, aborted, calls, pc, request, attr, thread, ptr, res,
          join_ret, raw_ret, result, threads, heap, createCount, joinCount,
          runs>>

NoAttr == [stacksize |-> 0, detachstate |-> "default"]

NoRequest == [work |-> NoWork, stacksize |-> 0, T |-> ""]

Init ==
    /\ overflowChecks \in BOOLEAN
    /\ aborted = FALSE
    /\ calls = 0
    /\ pc = "idle"
    /\ request = NoRequest
    /\ attr = NoAttr
    /\ thread = 0
    /\ ptr = 0
    /\ res = 0
    /\ join_ret = 0
    /\ raw_ret = 0
    /\ result = NoResult
    /\ threads = <<>>
    /\ heap = <<>>
    /\ createCount = <<>>
    /\ joinCount = <<>>
    /\ runs = <<>>

\* ------------------------------------------------------------------ heap
\* Bug variant of WorkCell: the caller keeps its owning handle (the address
\* is taken from the live Box instead of Box::into_raw).
WorkCellKept(n, work, owners) ==
    [kind |-> "work", owners |-> owners \cup {"caller"}, by |-> "none",
     state |-> "live", call |-> n,
     work |-> work, vtable |-> "", content |-> NoValue, res |-> NoResult]

\* A box holding a unit of work.  owners is the set of threads that hold an
\* owning handle (a Box) to it: empty while only a raw address exists and
\* once the box is deallocated; by is the thread that deallocated it.
WorkCell(n, work, owners) ==
    [kind |-> "work", owners |-> owners, by |-> "none",
     state |-> "live", call |-> n,
     work |-> work, vtable |-> "", content |-> NoValue, res |-> NoResult]

\* A box holding a result.  For the executor the box is a Box<dyn Any + Send>:
\* vtable names the concrete type recorded in the fat pointer, content is the
\* value.  For the adapter it is a Box<Result<Vec<WasmValue>, RuntimeError>>.
ResultCell(n, vtable, content, r) ==
    [kind |-> "result", owners |-> {"worker"}, by |-> "none",
     state |-> "live", call |-> n,
     work |-> NoWork, vtable |-> vtable, content |-> content, res |-> r]

\* What a read through an address that is no live box yields.
NullCell ==
    [kind |-> "null", owners |-> {}, by |-> "none",
     state |-> "invalid", call |-> 0,
     work |-> NoWork, vtable |-> "", content |-> NoValue, res |-> NoResult]

Deref(addr) == IF addr \in DOMAIN heap THEN heap[addr] ELSE NullCell

\* ------------------------------------------------------- caller: dispatch
\* The caller thread is between calls and may start another, up to limit calls.
Idle(limit) == ~aborted /\ pc \in {"idle", "returned"} /\ calls < limit

\* Bug variant of JoinableAttr: the worker is created detached.
DetachedAttr == [stacksize |-> DefaultStackSize, detachstate |-> "DETACHED"]

\* attr.stacksize = 4096; attr.detachstate = PTHREAD_CREATE_JOINABLE, as both
\* operations set it.
JoinableAttr == [stacksize |-> DefaultStackSize, detachstate |-> "JOINABLE"]

\* The attr the generic executor passes to pthread_create: the stacksize
\* argument is not used.
ExecutorAttr(stacksize) == JoinableAttr

\* The adapter's attr.
AdapterAttr == JoinableAttr

\* A new worker thread as pthread_create leaves it: not yet running.
NewThread(n, entry, a, arg) ==
    [call |-> n, entry |-> entry, attr |-> a, arg |-> arg, pc |-> "created",
     box |-> 0, retval |-> 0, joins |-> 0]

\* The caller leaves the call on a failed status: Err(..) with exit_code
\* status.abs() as u32, or the panic of abs() in a build with overflow checks.
FailWith(status, error) ==
    IF overflowChecks /\ AbsOverflows(status)
    THEN pc' = "panicked" /\ result' = NoResult
    ELSE pc' = "returned" /\ result' = error

\* Bug variant of CreateFailed: only negative statuses count as failures.
CreateFailedNegative(status) == status < 0

\* The test `res != 0` after pthread_create.
CreateFailed(status) == status /= 0

\* The common part of both operations up to the test of res: box the unit of
\* work, turn the box into a raw address, call pthread_create, and return the
\* error if it failed.
Dispatch(work, entry, a, stacksize, T) ==
    LET n == calls + 1
        p == Len(heap) + 1
    IN  /\ calls' = n
        /\ request' = [work |-> work, stacksize |-> stacksize, T |-> T]
        /\ attr' = a
        /\ ptr' = p
        /\ heap' = Append(heap, WorkCell(n, work, {}))
        /\ createCount' = Append(createCount, 1)
        /\ joinCount' = Append(joinCount, 0)
        /\ runs' = Append(runs, 0)
        /\ join_ret' = 0
        /\ raw_ret' = 0
        /\ \E k \in DOMAIN CreateStatuses :
              LET status == CreateStatuses[k] IN
              /\ res' = status
              \* pthread_create: a thread exists iff the status is 0
              /\ IF status /= 0
                 THEN thread' = 0 /\ threads' = threads
                 ELSE /\ thread' = Len(threads) + 1
                      /\ threads' = Append(threads, NewThread(n, entry, a, p))
              \* if res != 0 { return Err(..) } else { .. pthread_join ..}
              /\ IF CreateFailed(status)
                 THEN FailWith(status, CreateError(status))
                 ELSE pc' = "join" /\ result' = NoResult
        /\ UNCHANGED <<overflowChecks, aborted>>

\* <Function as PThreadExtension>::call_pthread(instance, params), up to join.
AdapterCall(function, instance, params) ==
    /\ Dispatch(FunctionCaller(function, instance, params), "raw_fncaller",
                AdapterAttr, DefaultStackSize,
                "Result<Vec<WasmValue>,RuntimeError>")

\* call_pthread(stacksize, f), up to join.
ExecutorCall(stacksize, f) ==
    /\ Dispatch(ClosureWrapper(f), "raw_closurescaller",
                ExecutorAttr(stacksize), stacksize, f.T)

\* ----------------------------------------------------------- caller: join
\* Bug variant of JoinReady: the join does not wait for the worker to exit.
JoinReadyNoWait(t) == t \in DOMAIN threads /\ threads[t].pc /= "joined"

\* Bug variant of JoinReady: the join waits for a detached-style reaping
\* that never happens for a joinable thread.
JoinReadyNever(t) == t \in DOMAIN threads /\ threads[t].pc = "joined"

\* pthread_join(t, &raw_ret) returns 0 once thread t has terminated.
JoinReady(t) == t \in DOMAIN threads /\ threads[t].pc = "exited"

\* raw_ret as *mut (dyn Any + Send): the address is a thin *mut c_void, so the
\* cast is the unsizing coercion of a pointer to c_void and the fat pointer
\* gets the vtable of c_void; the vtable the worker's box had was dropped when
\* the worker cast Box::into_raw(result) to *mut c_void.
DynFromRaw(addr) == [addr |-> addr, vtable |-> "c_void"]

\* Box<dyn Any>::downcast::<T>(): Ok when the vtable's type id is T's.
DowncastOk(boxed, T) == boxed.vtable = T

\* The box at addr after its value was moved out and the box deallocated.
Consume(h, addr) ==
    IF addr \in DOMAIN h
    THEN [h EXCEPT ![addr].state = "consumed", ![addr].by = "caller",
                   ![addr].content = NoValue, ![addr].res = NoResult]
    ELSE h

\* The box at addr after being dropped as a Box<dyn Any> whose vtable is
\* c_void's: no destructor of the value runs and the block is deallocated
\* with c_void's layout.
DropAs(h, addr, vtable) ==
    IF addr \in DOMAIN h
    THEN [h EXCEPT ![addr].state =
                      IF vtable = h[addr].vtable THEN "dropped" ELSE "misfreed",
                   ![addr].by = "caller",
                   ![addr].content = NoValue, ![addr].res = NoResult]
    ELSE h

\* pthread_join succeeded: the rest of the call.
Reclaim ==
    LET t == thread
        addr == threads[t].retval
        cell == Deref(addr)
    IN  /\ join_ret' = 0
        /\ raw_ret' = addr
        /\ threads' = [threads EXCEPT ![t].pc = "joined", ![t].joins = @ + 1]
        /\ pc' = "returned"
        /\ IF request.work.op = "adapter"
           THEN \* Box::from_raw(raw_ret as *mut Result<..>); return *instance_data
                /\ result' = cell.res
                /\ heap' = Consume(heap, addr)
           ELSE \* Box::from_raw(raw_ret as *mut _), downcast::<T>()
                LET boxed_result == DynFromRaw(addr)
                IN  IF DowncastOk(boxed_result, request.T)
                    THEN /\ result' = Ok(cell.content)
                         /\ heap' = Consume(heap, addr)
                    ELSE /\ result' = MismatchError
                         /\ heap' = DropAs(heap, addr, boxed_result.vtable)

\* pthread_join returned status /= 0: the call returns the error at once.
JoinFailed(status) ==
    /\ join_ret' = status
    /\ FailWith(status, JoinError(status))
    /\ UNCHANGED <<raw_ret, threads, heap>>

\* What every return of pthread_join does: the join request is counted.
JoinReturns ==
    /\ ~aborted
    /\ pc = "join"
    /\ joinCount' = [joinCount EXCEPT ![calls] = @ + 1]
    /\ UNCHANGED <<overflowChecks, aborted, calls, request, attr, thread, ptr,
                   res, createCount, runs>>

\* pthread_join returns 0 and the call runs to its return.
JoinOk == JoinReturns /\ JoinReady(thread) /\ Reclaim

\* pthread_join returns a non-zero status and the call returns its error.
JoinFail ==
    /\ JoinReturns
    /\ \E k \in DOMAIN JoinStatuses :
          JoinStatuses[k] /= 0 /\ JoinFailed(JoinStatuses[k])

\* The caller's pthread_join returns, and the call runs to its return.
Join == JoinOk \/ JoinFail

\* ---------------------------------------------------------------- worker
\* The references held by the FunctionCaller of call n (function, instance,
\* params) point into the frame of the caller, which is live while the call
\* has not returned.
FrameLive(n) == calls = n /\ pc = "join"

\* Results a call through dangling references may produce.
DanglingResults ==
    { FunctionCall(f, i, p) : f \in Functions \ {"spin"}, i \in Instances,
                              p \in ParamLists }

\* Bug variant of EnterCount: the operation is invoked twice.
EnterTwice(k) == k + 2

\* Invocations of the operation after one more entry of the worker.
EnterCount(k) == k + 1

\* Entry of raw_fncaller / raw_closurescaller: Box::from_raw(arg) takes the
\* unit of work over, and the operation is invoked.
WorkerEnter(t) ==
    /\ ~aborted
    /\ t \in DOMAIN threads
    /\ threads[t].pc = "created"
    /\ heap' = [heap EXCEPT ![threads[t].arg].owners = @ \cup {"worker"}]
    /\ runs' = [runs EXCEPT ![threads[t].call] = EnterCount(@)]
    /\ threads' = [threads EXCEPT ![t].pc = "running"]
    /\ UNCHANGED <<overflowChecks, aborted, calls, pc, request, attr, thread,
                   ptr, res, join_ret, raw_ret, result, createCount, joinCount>>

\* The operation returns on the worker and its result is boxed:
\* Box::new(fncaller.call()) in raw_fncaller, and in raw_closurescaller the
\* wrapped closure's Box::new(result) as Box<dyn Any + Send>.
WorkerEval(t) ==
    /\ ~aborted
    /\ t \in DOMAIN threads
    /\ threads[t].pc = "running"
    /\ LET work == heap[threads[t].arg].work
           n == threads[t].call
           addr == Len(heap) + 1
       IN  /\ IF work.op = "adapter"
              THEN /\ FunctionReturns(work.function)
                   /\ \E r \in (IF FrameLive(n) THEN {FunctionCallerCall(work)}
                                ELSE DanglingResults) :
                         heap' = Append(heap, ResultCell(n, "", NoValue, r))
              ELSE /\ work.closure.out = "return"
                   /\ heap' = Append(heap, ResultCell(n, work.closure.T,
                                                      work.closure.v, NoResult))
           /\ threads' = [threads EXCEPT ![t].pc = "boxed", ![t].box = addr]
    /\ UNCHANGED <<overflowChecks, aborted, calls, pc, request, attr, thread,
                   ptr, res, join_ret, raw_ret, result, createCount, joinCount,
                   runs>>

\* The operation panics on the worker: the panic cannot unwind out of the
\* extern "C" entry point, and the process is aborted.
WorkerPanic(t) ==
    /\ ~aborted
    /\ t \in DOMAIN threads
    /\ threads[t].pc = "running"
    /\ heap[threads[t].arg].work.op = "executor"
    /\ heap[threads[t].arg].work.closure.out = "panic"
    /\ aborted' = TRUE
    /\ UNCHANGED <<overflowChecks, calls, pc, request, attr, thread, ptr, res,
                   join_ret, raw_ret, result, threads, heap, createCount,
                   joinCount, runs>>

\* Box::into_raw(ret) as *mut c_void: the address alone leaves the thread.
ThinAddress(addr) == addr

\* Return of the entry point: the result box becomes a raw address, the box
\* of the unit of work is dropped, and the thread terminates with the address
\* as its exit value.
WorkerExit(t) ==
    /\ ~aborted
    /\ t \in DOMAIN threads
    /\ threads[t].pc = "boxed"
    /\ heap' = [heap EXCEPT ![threads[t].box].owners = @ \ {"worker"},
                            ![threads[t].arg].owners = @ \ {"worker"},
                            ![threads[t].arg].by = "worker",
                            ![threads[t].arg].state = "consumed",
                            ![threads[t].arg].work = NoWork]
    /\ threads' = [threads EXCEPT ![t].pc = "exited",
                                  ![t].retval = ThinAddress(threads[t].box)]
    /\ UNCHANGED <<overflowChecks, aborted, calls, pc, request, attr, thread,
                   ptr, res, join_ret, raw_ret, result, createCount, joinCount,
                   runs>>

\* ------------------------------------------------------------ specification
WorkerStep ==
    \/ \E t \in DOMAIN threads : WorkerEnter(t)
    \/ \E t \in DOMAIN threads : WorkerEval(t)
    \/ \E t \in DOMAIN threads : WorkerExit(t)

\* Every input, at most MaxCalls calls.
Next ==
    \/ /\ Idle(MaxCalls)
       /\ \E f \in Functions, i \in Instances, p \in ParamLists :
             AdapterCall(f, i, p)
    \/ /\ Idle(MaxCalls)
       /\ \E s \in StackSizes, f \in Closures : ExecutorCall(s, f)
    \/ Join
    \/ WorkerStep
    \/ \E t \in DOMAIN threads : WorkerPanic(t)

Spec == Init /\ [][Next]_vars

\* Sequences of calls: one returning input per operation, at most MaxSeqCalls
\* calls, every status of pthread_create and pthread_join.
NextSeq ==
    \/ /\ Idle(MaxSeqCalls)
       /\ AdapterCall("sum", 10, <<1, 2>>)
    \/ /\ Idle(MaxSeqCalls)
       /\ ExecutorCall(8192, Closure("i32", "return", Value("i32", "", <<42>>, "")))
    \/ Join
    \/ WorkerStep

SpecSeq == Init /\ [][NextSeq]_vars

\* ------------------------------------------------------------ vocabulary
\* The current call has returned to its caller.
Returned == pc = "returned"

\* The current call is over: it returned, or it left by a panic.
CallOver == pc \in {"returned", "panicked"}

\* The current call is one of the given operation.
IsAdapter == request.work.op = "adapter"
IsExecutor == request.work.op = "executor"

\* In the current call pthread_create resp. pthread_join returned 0.
CreateSucceeded == calls >= 1 /\ res = 0
JoinSucceeded == CreateSucceeded /\ CallOver /\ join_ret = 0

\* Boxes allocated by the current call.
CallBoxes == {a \in DOMAIN heap : heap[a].call = calls}
ResultBoxes == {a \in CallBoxes : heap[a].kind = "result"}

\* The u32 code is the number i.
U32Equals(code, i) == i >= 0 /\ code = [hi |-> i \div Half, lo |-> i % Half]

\* The u32 code is the magnitude |s| of the i32 status s.
U32IsMagnitude(code, s) ==
    IF s = I32Min THEN code = [hi |-> 32768, lo |-> 0]
    ELSE IF s < 0 THEN U32Equals(code, 0 - s) ELSE U32Equals(code, s)

\* ---------------------------------------------------------------- claims

\* C1: when thread creation and join both succeed, the generic executor
\* returns Ok(v) with the value v the closure produced on the worker.
C1_ExecutorReturnsOkValue ==
    (Returned /\ IsExecutor /\ JoinSucceeded)
        => result = Ok(request.work.closure.v)

\* C2: when thread creation and join both succeed, the adapter returns,
\* unchanged, the Result that function.call(instance, params) produces when
\* called directly, for Ok and for the callable's own Err.
C2_AdapterReturnsDirectResult ==
    (Returned /\ IsAdapter /\ JoinSucceeded)
        => result = FunctionCall(request.work.function, request.work.instance,
                                 request.work.params)

\* C2 witness: an adapter call with a non-empty argument list has returned
\* the callable's Ok result through the worker.
C2_Witness ==
    /\ Returned /\ IsAdapter /\ JoinSucceeded
    /\ request.work.params = <<1, 2>>
    /\ result.tag = "Ok" /\ result.val.ints = <<23>>
    /\ runs[calls] = 1

\* C3: in every call whose thread creation succeeded, at call completion the
\* work has run exactly once, exactly one result box exists and the caller
\* has reclaimed it.
C3_ExactlyOnce ==
    (CallOver /\ CreateSucceeded)
        => /\ runs[calls] = 1
           /\ Cardinality(ResultBoxes) = 1
           /\ \A a \in ResultBoxes : heap[a].state = "consumed"

\* C4: on every failure exit (creation failure, join failure, type mismatch)
\* every box the call allocated has been reclaimed when the error is returned.
C4_FailureExitsReclaim ==
    (Returned /\ (res /= 0 \/ join_ret /= 0 \/ result = MismatchError))
        => \A a \in CallBoxes : heap[a].state \in {"consumed", "dropped"}

\* C5: once a worker has been created, the caller does not leave the call,
\* with any outcome, while that worker has not terminated.
C5_NoReturnBeforeWorkerTerminates ==
    \A t \in DOMAIN threads :
        (threads[t].call < calls \/ CallOver)
            => threads[t].pc \in {"exited", "joined"}

\* C6: the caller takes the result (the join returns 0 and the call goes on
\* to reclaim the exit value) only in a step that starts with the worker
\* terminated, the operation run once, and the worker's result box handed
\* over as the exit value, which is the address the caller then reads.
C6_ResultReadAfterWorkerFinished ==
    [][(pc = "join" /\ pc' = "returned" /\ join_ret' = 0)
          => /\ threads[thread].pc = "exited"
             /\ runs[calls] = 1
             /\ threads[thread].retval \in ResultBoxes
             /\ heap[threads[thread].retval].owners = {}
             /\ raw_ret' = threads[thread].retval]_vars

\* C6 witness: a call has returned after a successful join of its worker.
C6_Witness ==
    /\ Returned /\ JoinSucceeded
    /\ threads[thread].pc = "joined"
    /\ raw_ret = threads[thread].box

\* Calls that are over: all earlier ones, and the current one once it is.
OverCalls == {n \in 1..calls : n < calls \/ CallOver}

\* The worker threads created by call n.
ThreadsOf(n) == {t \in DOMAIN threads : threads[t].call = n}

\* C7: each call makes exactly one thread-creation request; a call that got
\* past creation makes exactly one join request, on its own worker, and a
\* call whose creation failed makes none; every worker is created joinable;
\* no worker belongs to, or is joined by, more than one call.
C7_OneCreateOneJoin ==
    /\ \A n \in 1..calls :
          /\ createCount[n] = 1
          /\ Cardinality(ThreadsOf(n)) <= 1
          /\ joinCount[n] <= Cardinality(ThreadsOf(n))
    /\ \A n \in OverCalls : joinCount[n] = Cardinality(ThreadsOf(n))
    /\ pc = "join" => ThreadsOf(calls) = {thread}
    /\ \A t \in DOMAIN threads :
          /\ threads[t].attr.detachstate = "JOINABLE"
          /\ threads[t].joins <= 1
          /\ threads[t].joins = 1 => joinCount[threads[t].call] = 1

\* C7 witness: two calls are over, the first with its worker joined, the
\* second one past creation as well, each with one create and one join.
C7_Witness ==
    /\ calls = 2 /\ CallOver
    /\ Len(threads) = 2
    /\ threads[1].call = 1 /\ threads[1].joins = 1
    /\ threads[2].call = 2
    /\ createCount = <<1, 1>> /\ joinCount = <<1, 1>>

\* C8: the generic executor creates the worker with the stack size the
\* caller requested.
C8_StackSizeHonoured ==
    \A t \in ThreadsOf(calls) :
        IsExecutor => threads[t].attr.stacksize = request.stacksize

C11_MismatchIsErrorAndReclaimed ==
    (Returned /\ IsExecutor /\ JoinSucceeded
       /\ ~DowncastOk(DynFromRaw(raw_ret), request.T))
        => /\ result = MismatchError
           /\ heap[raw_ret].by = "caller"
           /\ heap[raw_ret].state \in {"consumed", "dropped"}

\* The operation of the current call returns when invoked.
OperationTerminates ==
    IF IsAdapter THEN FunctionReturns(request.work.function)
    ELSE request.work.closure.out = "return"

\* The calls with every input, where pthread_join does not fail; the
\* scheduler keeps running a worker that can take a step, and pthread_join
\* returns once the worker has terminated.
NextLive ==
    \/ /\ Idle(MaxCalls)
       /\ \E f \in Functions, i \in Instances, p \in ParamLists :
             AdapterCall(f, i, p)
    \/ /\ Idle(MaxCalls)
       /\ \E s \in StackSizes, f \in Closures : ExecutorCall(s, f)
    \/ JoinOk
    \/ WorkerStep
    \/ \E t \in DOMAIN threads : WorkerPanic(t)

SpecLive ==
    Init /\ [][NextLive]_vars /\ WF_vars(WorkerStep) /\ WF_vars(JoinOk)

\* C12: if thread creation succeeded, the join does not fail and the
\* operation terminates, the call eventually returns to the caller.
C12_EventuallyReturns ==
    (pc = "join" /\ OperationTerminates) ~> (Returned /\ join_ret = 0)

\* C12 witness: an executor call whose closure returns has come back from a
\* successful join.
C12_Witness ==
    /\ Returned /\ IsExecutor /\ JoinSucceeded
    /\ OperationTerminates
    /\ threads[thread].pc = "joined" /\ joinCount[calls] = 1

\* C13: each failure kind (creation, join, type mismatch) ends the call by
\* returning an Err value; the call never ends in a panic or abort instead.
C13_FailuresReturnErr ==
    /\ pc /= "panicked"
    /\ (calls >= 1 /\ (res /= 0 \/ join_ret /= 0))
          => (Returned /\ result.tag = "Err")
    /\ (Returned /\ IsExecutor /\ JoinSucceeded
          /\ ~DowncastOk(DynFromRaw(raw_ret), request.T))
          => result.tag = "Err"

\* C14: when the operation has panicked on the worker, the call has ended
\* with an Err result for the caller.
C14_WorkerPanicPropagated ==
    aborted => (Returned /\ result.tag = "Err")

\* At most one thread holds an owning handle to a box, and none once it is
\* deallocated; the caller never holds or frees a unit of work after
\* dispatch; the worker holds the result only until it returns its address,
\* and never frees it.
OwnershipInv ==
    \A a \in DOMAIN heap :
        LET c == heap[a] IN
        /\ Cardinality(c.owners) <= 1
        /\ c.state /= "live" => c.owners = {}
        /\ c.kind = "work" => ("caller" \notin c.owners /\ c.by /= "caller")
        /\ c.kind = "result" =>
              /\ c.by /= "worker"
              /\ "worker" \in c.owners =>
                    \E t \in DOMAIN threads :
                        threads[t].box = a /\ threads[t].pc = "boxed"

\* A step touches an existing box only as a handoff allows: the caller only
\* the result box an exited worker of its call left as exit value; a worker
\* only a box it owns, or the unit of work handed to it at its creation.
Handoff ==
    \A a \in DOMAIN heap :
        heap'[a] /= heap[a] =>
            IF pc' /= pc
            THEN /\ heap[a].kind = "result" /\ heap[a].owners = {}
                 /\ thread \in DOMAIN threads
                 /\ threads[thread].pc = "exited"
                 /\ a = threads[thread].retval
            ELSE \E t \in DOMAIN threads :
                    /\ threads'[t] /= threads[t]
                    /\ \/ a \in {threads[t].arg, threads[t].box}
                          /\ heap[a].owners = {"worker"}
                       \/ a = threads[t].arg /\ threads[t].pc = "created"
                          /\ heap[a].owners = {}

\* C15: in every interleaving each box has at most one owning thread at a
\* time and passes from one thread to the other by a clean handoff: the
\* caller never touches the unit of work after dispatch, the worker never
\* touches the result after returning its address.
C15_CleanHandoff == []OwnershipInv /\ [][Handoff]_vars

\* C15 witness: both handoffs happened: the worker took over and dropped the
\* unit of work, and the caller took over the worker's result box.
C15_Witness ==
    \E a, b \in CallBoxes :
        /\ heap[a].kind = "work" /\ heap[a].by = "worker"
        /\ heap[b].kind = "result" /\ heap[b].by = "caller"
        /\ heap[a].owners = {} /\ heap[b].owners = {}

\* C16: the container the caller rebuilds from the worker's exit value has
\* the type tag and the value the worker put into it, so that recovering it
\* as T yields the value.
C16_RoundTripKeepsTag ==
    (Returned /\ IsExecutor /\ JoinSucceeded)
        => /\ DynFromRaw(raw_ret).vtable = heap[raw_ret].vtable
           /\ DowncastOk(DynFromRaw(raw_ret), request.T)
           /\ result.val = request.work.closure.v

CodeComputed(s) ==
    /\ ~AbsOverflows(s)
    /\ pc /= "panicked"
    /\ Returned => /\ U32IsMagnitude(result.err.exit_code, s)
                   /\ result.err.exit_code /= AsU32(0)

\* C18: for every non-zero status the code is computed without overflow and
\* is the strictly positive |status|.
C18_CodeWithoutOverflow ==
    /\ (calls >= 1 /\ res /= 0) => CodeComputed(res)
    /\ (calls >= 1 /\ join_ret /= 0) => CodeComputed(join_ret)

====
